---- MODULE Spec2Model ----
(***************************************************************************)
(* StaV: a stack-based composition language compiled to HTML               *)
(* (src/src/main.rs).  A source text is tokenized, every token is          *)
(* classified as a command or a literal, the nodes are evaluated in order  *)
(* against a Stack {data, scope, title, theme}, and the final data stack   *)
(* is rendered by generate.  main writes the result beside the source.     *)
(*                                                                         *)
(* Strings are sequences of one-character strings.                         *)
(***************************************************************************)
EXTENDS Integers, Sequences, FiniteSets, TLC

VARIABLES
    pc,             \* position in main / stav
    source,         \* the text of the source file
    pos,            \* tokenize: index of the next character of source
    tokens,         \* tokenize: tokens
    current_token,  \* tokenize: current_token
    in_quote,       \* tokenize: in_quote
    is_escape,      \* tokenize: is_escape
    nodes,          \* stav: the parsed nodes still to evaluate
    data,           \* Stack.data, top = end
    scope,          \* Stack.scope
    title,          \* Stack.title
    theme,          \* Stack.theme
    gi,             \* generate: index of the next entry of stack.data
    output,         \* generate: output
    list,           \* generate: list
    is_list,        \* generate: is_list
    html,           \* what stav returned: None or Some(document)
    file,           \* the output .html file
    last,           \* history: the node evaluated by the last evaluation step
    stored,         \* history: per name, the operand of the last successful store
    steps,          \* history: the number of nodes evaluated since the initial state
    fault_at        \* history: the stage whose failure made main stop, or "none"

vars == <<pc, source, pos, tokens, current_token, in_quote, is_escape, nodes,
          data, scope, title, theme, gi, output, list, is_list, html, file,
          last, stored, steps, fault_at>>

\* ------------------------------------------------------------------ bounds
\* longest source text drawn over Alphabet
MaxLen == 4
\* most items (plain characters or escape sequences) of a drawn quoted literal
MaxItems == 3
\* most nodes evaluated when the node list is drawn node by node
MaxSteps == 4
\* most entries of a drawn final stack
MaxStack == 3
\* most characters between the quotes of a drawn Text literal
MaxContent == 5
\* most words drawn after the first words of a program
MaxProg == 1
\* longest source text drawn over TokenAlphabet
MaxTok == 4
\* most digits drawn after the first digits of a numeral
MaxDigits == 2

\* ------------------------------------------------------------- characters
DQ == "\""
BS == "\\"
SP == " "
NL == "\n"
TAB == "\t"
CR == "\r"
Whitespace == {SP, NL, TAB, CR}

\* Option<T>
None == [some |-> FALSE]
Some(x) == [some |-> TRUE, val |-> x]

\* ---------------------------------------------------------------- strings
RECURSIVE Concat(_)
Concat(ss) == IF ss = <<>> THEN <<>> ELSE Head(ss) \o Concat(Tail(ss))

\* [String]::join(sep)
RECURSIVE Join(_, _)
Join(ss, sep) ==
    IF ss = <<>> THEN <<>>
    ELSE IF Len(ss) = 1 THEN ss[1]
    ELSE ss[1] \o sep \o Join(Tail(ss), sep)

StartsWith(s, p) == Len(s) >= Len(p) /\ SubSeq(s, 1, Len(p)) = p
EndsWith(s, p) == Len(s) >= Len(p) /\ SubSeq(s, Len(s) - Len(p) + 1, Len(s)) = p

\* str::strip_prefix / str::strip_suffix
StripPrefix(s, p) == IF StartsWith(s, p) THEN Some(SubSeq(s, Len(p) + 1, Len(s))) ELSE None
StripSuffix(s, p) == IF EndsWith(s, p) THEN Some(SubSeq(s, 1, Len(s) - Len(p))) ELSE None

\* str::trim
RECURSIVE TrimStart(_)
TrimStart(s) == IF s # <<>> /\ s[1] \in Whitespace THEN TrimStart(Tail(s)) ELSE s
RECURSIVE TrimEnd(_)
TrimEnd(s) ==
    IF s # <<>> /\ s[Len(s)] \in Whitespace THEN TrimEnd(SubSeq(s, 1, Len(s) - 1)) ELSE s
Trim(s) == TrimEnd(TrimStart(s))

\* str::replace(from, to)
RECURSIVE Replace(_, _, _)
Replace(s, from, to) ==
    IF s = <<>> THEN <<>>
    ELSE IF StartsWith(s, from) THEN to \o Replace(SubSeq(s, Len(from) + 1, Len(s)), from, to)
    ELSE <<s[1]>> \o Replace(Tail(s), from, to)

\* -------------------------------------------------------------- integers
I32Max == 2147483647
I32Min == (0 - I32Max) - 1
Digits == <<"0", "1", "2", "3", "4", "5", "6", "7", "8", "9">>
IsDigit(c) == \E d \in 1..10 : Digits[d] = c
DigitVal(c) == (CHOOSE d \in 1..10 : Digits[d] = c) - 1

\* ParseDigits that saturates at the ends of the i32 range where the code
\* gives up
RECURSIVE ParseDigitsSaturating(_, _, _)
ParseDigitsSaturating(s, result, neg) ==
    IF s = <<>> THEN Some(result)
    ELSE IF ~IsDigit(s[1]) THEN None
    ELSE LET d == DigitVal(s[1]) IN
         IF neg THEN
             IF result < 0 - (I32Max \div 10) THEN ParseDigitsSaturating(Tail(s), I32Min, neg)
             ELSE IF d - 1 > result * 10 + I32Max
                  THEN ParseDigitsSaturating(Tail(s), I32Min, neg)
             ELSE ParseDigitsSaturating(Tail(s), result * 10 - d, neg)
         ELSE
             IF result > I32Max \div 10 THEN ParseDigitsSaturating(Tail(s), I32Max, neg)
             ELSE IF d > I32Max - result * 10 THEN ParseDigitsSaturating(Tail(s), I32Max, neg)
             ELSE ParseDigitsSaturating(Tail(s), result * 10 + d, neg)

\* the checked accumulation of the digits: result * 10 + d, or result * 10 - d
\* after a minus sign; None on an invalid digit or on overflow of i32
RECURSIVE ParseDigits(_, _, _)
ParseDigits(s, result, neg) ==
    IF s = <<>> THEN Some(result)
    ELSE IF ~IsDigit(s[1]) THEN None
    ELSE LET d == DigitVal(s[1]) IN
         IF neg THEN
             IF result < 0 - (I32Max \div 10) THEN None
             ELSE IF d - 1 > result * 10 + I32Max THEN None
             ELSE ParseDigits(Tail(s), result * 10 - d, neg)
         ELSE
             IF result > I32Max \div 10 THEN None
             ELSE IF d > I32Max - result * 10 THEN None
             ELSE ParseDigits(Tail(s), result * 10 + d, neg)

\* str::parse::<i32>().ok(): an optional sign, then at least one digit
ParseI32(s) ==
    IF s = <<>> \/ s = <<"+">> \/ s = <<"-">> THEN None
    ELSE IF s[1] = "+" THEN ParseDigits(Tail(s), 0, FALSE)
    ELSE IF s[1] = "-" THEN ParseDigits(Tail(s), 0, TRUE)
    ELSE ParseDigits(s, 0, FALSE)

\* i32::to_string
RECURSIVE NatToString(_)
NatToString(n) ==
    IF n < 10 THEN <<Digits[n + 1]>> ELSE NatToString(n \div 10) \o <<Digits[(n % 10) + 1]>>
IntToString(n) == IF n < 0 THEN <<"-">> \o NatToString(0 - n) ELSE NatToString(n)

\* -------------------------------------------------------------- tokenize
\* the character pushed for an escaped character
EscapedChar(c) ==
    CASE c = "n" -> NL
      [] c = "t" -> TAB
      [] c = "r" -> CR
      [] OTHER -> c

TokenizeInit == [tokens |-> <<>>, current_token |-> <<>>, in_quote |-> FALSE, is_escape |-> FALSE]

\* one iteration of the loop over source.chars()
TokenizeChar(st, c) ==
    IF st.is_escape THEN
        [st EXCEPT !.current_token = Append(@, EscapedChar(c)), !.is_escape = FALSE]
    ELSE IF c = DQ THEN
        [st EXCEPT !.in_quote = ~@, !.current_token = Append(@, c)]
    ELSE IF c = BS /\ st.in_quote THEN
        [st EXCEPT !.current_token = Append(@, c), !.is_escape = TRUE]
    ELSE IF c \in Whitespace /\ ~st.in_quote /\ st.current_token # <<>> THEN
        [st EXCEPT !.tokens = Append(@, st.current_token), !.current_token = <<>>]
    ELSE
        [st EXCEPT !.current_token = Append(@, c)]

\* TokenizeResult without the in_quote test
TokenizeResultEscapeOnly(st) ==
    IF st.is_escape THEN None
    ELSE IF st.current_token # <<>> THEN Some(Append(st.tokens, st.current_token))
    ELSE Some(st.tokens)

\* what tokenize returns once the loop has ended in state st
TokenizeResult(st) ==
    IF st.is_escape \/ st.in_quote THEN None
    ELSE IF st.current_token # <<>> THEN Some(Append(st.tokens, st.current_token))
    ELSE Some(st.tokens)

RECURSIVE TokenizeLoop(_, _)
TokenizeLoop(st, s) == IF s = <<>> THEN st ELSE TokenizeLoop(TokenizeChar(st, s[1]), Tail(s))

Tokenize(s) == TokenizeResult(TokenizeLoop(TokenizeInit, s))

\* ----------------------------------------------------------- text_escape
RECURSIVE TextEscapeLoop(_, _, _)
TextEscapeLoop(s, result, esc) ==
    IF s = <<>> THEN result
    ELSE IF esc THEN TextEscapeLoop(Tail(s), Append(result, s[1]), FALSE)
    ELSE IF s[1] = BS THEN TextEscapeLoop(Tail(s), result, TRUE)
    ELSE TextEscapeLoop(Tail(s), Append(result, s[1]), FALSE)

text_escape(text) == TextEscapeLoop(text, <<>>, FALSE)

\* ------------------------------------------------------ Value, Text, HTMLTag
\* enum HTMLTag
Paragraph == [tag |-> "Paragraph"]
HeadingTag(level) == [tag |-> "Heading", level |-> level]
LinkTag(url) == [tag |-> "Link", url |-> url]
ImageTag(url) == [tag |-> "Image", url |-> url]
BlockQuoteTag == [tag |-> "BlockQuote"]
ListTag == [tag |-> "List"]

\* enum Value; Text carries struct Text {content, font_size, tag}
TextValue(content, font_size, tag) ==
    [kind |-> "Text", content |-> content, font_size |-> font_size, tag |-> tag]
IntegerValue(n) == [kind |-> "Integer", int |-> n]
LinkValue(text) == [kind |-> "Link", text |-> text]
SymbolValue(name) == [kind |-> "Symbol", text |-> name]

\* enum Node
Literal(value) == [node |-> "Literal", value |-> value]
Command(cmd) == [node |-> "Command", cmd |-> cmd]

\* enum Command
Commands == {"Heading", "FontSize", "Link", "BlockQuote", "Image", "List", "Title",
             "Theme", "Load", "Store", "Concat", "Dup", "Swap", "Pop"}

HttpsPrefix == <<"h", "t", "t", "p", "s", ":", "/", "/">>
BrMarker == <<"<", "b", "r", ">">>

\* Value::parse
ValueParse(src) ==
    LET inner == IF StripPrefix(src, <<DQ>>).some
                 THEN StripSuffix(StripPrefix(src, <<DQ>>).val, <<DQ>>)
                 ELSE None
    IN  IF inner.some THEN
            Some(TextValue(text_escape(Trim(Replace(inner.val, <<BS, NL>>, BrMarker))),
                           None, Paragraph))
        ELSE IF ParseI32(src).some THEN Some(IntegerValue(ParseI32(src).val))
        ELSE IF StartsWith(src, HttpsPrefix) THEN Some(LinkValue(src))
        ELSE IF StripPrefix(src, <<"@">>).some
             THEN Some(SymbolValue(StripPrefix(src, <<"@">>).val))
        ELSE None

\* Command::parse
CommandParse(src) ==
    CASE src = <<"h", "e", "a", "d", "i", "n", "g">> -> Some("Heading")
      [] src = <<"f", "o", "n", "t", "-", "s", "i", "z", "e">> -> Some("FontSize")
      [] src = <<"l", "i", "n", "k">> -> Some("Link")
      [] src = <<"b", "l", "o", "c", "k", "-", "q", "u", "o", "t", "e">> -> Some("BlockQuote")
      [] src = <<"l", "i", "s", "t">> -> Some("List")
      [] src = <<"i", "m", "a", "g", "e">> -> Some("Image")
      [] src = <<"t", "i", "t", "l", "e">> -> Some("Title")
      [] src = <<"t", "h", "e", "m", "e">> -> Some("Theme")
      [] src = <<"l", "o", "a", "d">> -> Some("Load")
      [] src = <<"c", "o", "n", "c", "a", "t">> -> Some("Concat")
      [] src = <<"s", "t", "o", "r", "e">> -> Some("Store")
      [] src = <<"d", "u", "p">> -> Some("Dup")
      [] src = <<"s", "w", "a", "p">> -> Some("Swap")
      [] src = <<"p", "o", "p">> -> Some("Pop")
      [] OTHER -> None

\* NodeParse with a token that is no command and no literal taken as a Symbol
NodeParseUnknownIsSymbol(src) ==
    IF CommandParse(src).some THEN Some(Command(CommandParse(src).val))
    ELSE IF ValueParse(src).some THEN Some(Literal(ValueParse(src).val))
    ELSE Some(Literal(SymbolValue(src)))

\* Node::parse
NodeParse(src) ==
    IF CommandParse(src).some THEN Some(Command(CommandParse(src).val))
    ELSE IF ValueParse(src).some THEN Some(Literal(ValueParse(src).val))
    ELSE None

\* stav: the tokens, empty ones dropped, each trimmed and parsed; None when any
\* of them is no node
RECURSIVE ParseTokens(_)
ParseTokens(ts) ==
    IF ts = <<>> THEN Some(<<>>)
    ELSE IF Trim(ts[1]) = <<>> THEN ParseTokens(Tail(ts))
    ELSE LET n == NodeParse(Trim(ts[1]))
             rest == ParseTokens(Tail(ts))
         IN  IF n.some /\ rest.some THEN Some(<<n.val>> \o rest.val) ELSE None

\* Value::to_string
ValueToString(v) ==
    CASE v.kind = "Integer" -> IntToString(v.int)
      [] v.kind = "Text" -> v.content
      [] OTHER -> v.text

\* HashMap<String, Value>
EmptyMap == <<>>
MapGet(m, k) == IF k \in DOMAIN m THEN Some(m[k]) ELSE None
MapInsert(m, k, v) == [x \in (DOMAIN m) \cup {k} |-> IF x = k THEN v ELSE m[x]]

\* ------------------------------------------------------------- evaluation
\* struct Stack as stav creates it
NewStack == [data |-> <<>>, scope |-> EmptyMap, title |-> None, theme |-> None]

\* Vec::pop: the last entry, and what is left
Top(d) == d[Len(d)]
Rest(d) == SubSeq(d, 1, Len(d) - 1)

\* Interpolate with unwrap_or(token) on the lookup: an unbound name stays
InterpolateKeepsUnbound(token, sc) ==
    IF StripPrefix(token, <<"@">>).some /\ MapGet(sc, StripPrefix(token, <<"@">>).val).some
    THEN Some(ValueToString(MapGet(sc, StripPrefix(token, <<"@">>).val).val))
    ELSE Some(token)

\* the closure of Value::eval: a token that starts with @ becomes the string
\* of its binding (None when unbound), any other token stays
Interpolate(token, sc) ==
    IF StripPrefix(token, <<"@">>).some
    THEN IF MapGet(sc, StripPrefix(token, <<"@">>).val).some
         THEN Some(ValueToString(MapGet(sc, StripPrefix(token, <<"@">>).val).val))
         ELSE None
    ELSE Some(token)

\* .map(closure).collect::<Option<Vec<String>>>()
RECURSIVE InterpolateAll(_, _)
InterpolateAll(ts, sc) ==
    IF ts = <<>> THEN Some(<<>>)
    ELSE LET h == Interpolate(ts[1], sc)
             t == InterpolateAll(Tail(ts), sc)
         IN  IF h.some /\ t.some THEN Some(<<h.val>> \o t.val) ELSE None

\* the content a Text literal is pushed with
EvalContent(content, sc) ==
    IF ~Tokenize(content).some THEN None
    ELSE IF ~InterpolateAll(Tokenize(content).val, sc).some THEN None
    ELSE Some(Join(InterpolateAll(Tokenize(content).val, sc).val, <<SP>>))

\* Value::eval
ValueEval(v, S) ==
    IF v.kind = "Text" THEN
        IF EvalContent(v.content, S.scope).some
        THEN Some([S EXCEPT !.data = Append(@, [v EXCEPT !.content =
                                                  EvalContent(v.content, S.scope).val])])
        ELSE None
    ELSE Some([S EXCEPT !.data = Append(@, v)])

\* Command::eval, one operator per arm.  A command that pops `kinds` from the
\* top down fails at the first pop of an empty stack or of another kind.
EvalHeading(S) ==
    LET d == S.data IN
    IF d = <<>> \/ Top(d).kind # "Integer" THEN None
    ELSE IF Rest(d) = <<>> \/ Top(Rest(d)).kind # "Text" THEN None
    ELSE Some([S EXCEPT !.data = Append(Rest(Rest(d)),
                   [Top(Rest(d)) EXCEPT !.tag = HeadingTag(Top(d).int)])])

EvalFontSize(S) ==
    LET d == S.data IN
    IF d = <<>> \/ Top(d).kind # "Integer" THEN None
    ELSE IF Rest(d) = <<>> \/ Top(Rest(d)).kind # "Text" THEN None
    ELSE Some([S EXCEPT !.data = Append(Rest(Rest(d)),
                   [Top(Rest(d)) EXCEPT !.font_size = Some(Top(d).int)])])

EvalLink(S) ==
    LET d == S.data IN
    IF d = <<>> \/ Top(d).kind # "Link" THEN None
    ELSE IF Rest(d) = <<>> \/ Top(Rest(d)).kind # "Text" THEN None
    ELSE Some([S EXCEPT !.data = Append(Rest(Rest(d)),
                   [Top(Rest(d)) EXCEPT !.tag = LinkTag(Top(d).text)])])

EvalBlockQuote(S) ==
    LET d == S.data IN
    IF d = <<>> \/ Top(d).kind # "Text" THEN None
    ELSE Some([S EXCEPT !.data = Append(Rest(d), [Top(d) EXCEPT !.tag = BlockQuoteTag])])

\* EvalImage that takes the Text beneath the Link as the alt text of the image
EvalImagePopsText(S) ==
    LET d == S.data IN
    IF d = <<>> \/ Top(d).kind # "Link" THEN None
    ELSE IF Rest(d) # <<>> /\ Top(Rest(d)).kind = "Text" THEN
        Some([S EXCEPT !.data = Append(Rest(Rest(d)),
                 TextValue(Top(Rest(d)).content, None, ImageTag(Top(d).text)))])
    ELSE Some([S EXCEPT !.data = Append(Rest(d),
                   TextValue(<<>>, None, ImageTag(Top(d).text)))])

EvalImage(S) ==
    LET d == S.data IN
    IF d = <<>> \/ Top(d).kind # "Link" THEN None
    ELSE Some([S EXCEPT !.data = Append(Rest(d),
                   TextValue(<<>>, None, ImageTag(Top(d).text)))])

EvalList(S) ==
    LET d == S.data IN
    IF d = <<>> \/ Top(d).kind # "Text" THEN None
    ELSE Some([S EXCEPT !.data = Append(Rest(d), [Top(d) EXCEPT !.tag = ListTag])])

\* EvalTitle that keeps a title that is already set
EvalTitleKeepsFirst(S) ==
    LET d == S.data IN
    IF d = <<>> \/ Top(d).kind # "Text" THEN None
    ELSE Some([S EXCEPT !.data = Rest(d),
                        !.title = IF @.some THEN @ ELSE Some(Top(d).content)])

EvalTitle(S) ==
    LET d == S.data IN
    IF d = <<>> \/ Top(d).kind # "Text" THEN None
    ELSE Some([S EXCEPT !.data = Rest(d), !.title = Some(Top(d).content)])

EvalTheme(S) ==
    LET d == S.data IN
    IF d = <<>> \/ Top(d).kind # "Text" THEN None
    ELSE Some([S EXCEPT !.data = Rest(d), !.theme = Some(Top(d).content)])

\* EvalLoad with scope.remove in place of scope.get
EvalLoadRemoves(S) ==
    LET d == S.data IN
    IF d = <<>> \/ Top(d).kind # "Symbol" THEN None
    ELSE IF ~MapGet(S.scope, Top(d).text).some THEN None
    ELSE Some([S EXCEPT !.data = Append(Rest(d), MapGet(S.scope, Top(d).text).val),
                        !.scope = [x \in (DOMAIN S.scope) \ {Top(d).text} |-> S.scope[x]]])

EvalLoad(S) ==
    LET d == S.data IN
    IF d = <<>> \/ Top(d).kind # "Symbol" THEN None
    ELSE IF ~MapGet(S.scope, Top(d).text).some THEN None
    ELSE Some([S EXCEPT !.data = Append(Rest(d), MapGet(S.scope, Top(d).text).val)])

\* EvalStore that reads its operand with last() where the code pops it
EvalStoreKeepsOperand(S) ==
    LET d == S.data IN
    IF d = <<>> \/ Top(d).kind # "Symbol" THEN None
    ELSE IF Rest(d) = <<>> THEN None
    ELSE Some([S EXCEPT !.data = Rest(d),
                        !.scope = MapInsert(@, Top(d).text, Top(Rest(d)))])

EvalStore(S) ==
    LET d == S.data IN
    IF d = <<>> \/ Top(d).kind # "Symbol" THEN None
    ELSE IF Rest(d) = <<>> THEN None
    ELSE Some([S EXCEPT !.data = Rest(Rest(d)),
                        !.scope = MapInsert(@, Top(d).text, Top(Rest(d)))])

\* EvalConcat that pushes text2 with the joined content where the code pushes text1
EvalConcatKeepsTop(S) ==
    LET d == S.data IN
    IF d = <<>> \/ Top(d).kind # "Text" THEN None
    ELSE IF Rest(d) = <<>> \/ Top(Rest(d)).kind # "Text" THEN None
    ELSE Some([S EXCEPT !.data = Append(Rest(Rest(d)),
                   [Top(d) EXCEPT !.content = Top(Rest(d)).content \o @])])

EvalConcat(S) ==
    LET d == S.data IN
    IF d = <<>> \/ Top(d).kind # "Text" THEN None
    ELSE IF Rest(d) = <<>> \/ Top(Rest(d)).kind # "Text" THEN None
    ELSE Some([S EXCEPT !.data = Append(Rest(Rest(d)),
                   [Top(Rest(d)) EXCEPT !.content = @ \o Top(d).content])])

EvalDup(S) ==
    LET d == S.data IN
    IF d = <<>> THEN None
    ELSE Some([S EXCEPT !.data = Append(Append(Rest(d), Top(d)), Top(d))])

EvalSwap(S) ==
    LET d == S.data IN
    IF d = <<>> \/ Rest(d) = <<>> THEN None
    ELSE Some([S EXCEPT !.data = Append(Append(Rest(Rest(d)), Top(d)), Top(Rest(d)))])

\* EvalPop without the ? on pop: an empty stack is left empty
EvalPopIgnoresEmpty(S) ==
    Some([S EXCEPT !.data = IF S.data = <<>> THEN <<>> ELSE Rest(S.data)])

EvalPop(S) ==
    LET d == S.data IN
    IF d = <<>> THEN None
    ELSE Some([S EXCEPT !.data = Rest(d)])

\* Command::eval
CommandEval(cmd, S) ==
    CASE cmd = "Heading" -> EvalHeading(S)
      [] cmd = "FontSize" -> EvalFontSize(S)
      [] cmd = "Link" -> EvalLink(S)
      [] cmd = "BlockQuote" -> EvalBlockQuote(S)
      [] cmd = "Image" -> EvalImage(S)
      [] cmd = "List" -> EvalList(S)
      [] cmd = "Title" -> EvalTitle(S)
      [] cmd = "Theme" -> EvalTheme(S)
      [] cmd = "Load" -> EvalLoad(S)
      [] cmd = "Store" -> EvalStore(S)
      [] cmd = "Concat" -> EvalConcat(S)
      [] cmd = "Dup" -> EvalDup(S)
      [] cmd = "Swap" -> EvalSwap(S)
      [] cmd = "Pop" -> EvalPop(S)

\* Node::eval
NodeEval(n, S) ==
    IF n.node = "Literal" THEN ValueEval(n.value, S) ELSE CommandEval(n.cmd, S)

\* --------------------------------------------------------------- generate
\* set_font_size!
SetFontSize(font_size) ==
    IF font_size.some
    THEN <<SP, "s", "t", "y", "l", "e", "=", DQ, "f", "o", "n", "t", "-", "s", "i", "z", "e", ":", SP>> \o IntToString(font_size.val)
         \o <<"p", "x", ";", DQ>>
    ELSE <<>>

\* the html of a Text whose tag is not List
RenderText(text) ==
    CASE text.tag.tag = "Paragraph" ->
            <<"<", "p">> \o SetFontSize(text.font_size) \o <<">">> \o text.content
            \o <<"<", "/", "p", ">">>
      [] text.tag.tag = "Heading" ->
            <<"<", "h">> \o IntToString(text.tag.level) \o SetFontSize(text.font_size)
            \o <<">">> \o text.content \o <<"<", "/", "h">> \o IntToString(text.tag.level)
            \o <<">">>
      [] text.tag.tag = "Link" ->
            <<"<", "a", SP, "h", "r", "e", "f", "=", DQ>> \o text.tag.url \o <<DQ>>
            \o SetFontSize(text.font_size) \o <<">">> \o text.content \o <<"<", "/", "a", ">">>
      [] text.tag.tag = "BlockQuote" ->
            <<"<", "b", "l", "o", "c", "k", "q", "u", "o", "t", "e">> \o SetFontSize(text.font_size) \o <<">">>
            \o text.content \o <<"<", "/", "b", "l", "o", "c", "k", "q", "u", "o", "t", "e", ">">>
      [] text.tag.tag = "Image" ->
            <<"<", "i", "m", "g", SP, "s", "r", "c", "=", DQ>> \o text.tag.url \o <<DQ, SP, "a", "l", "t", "=", DQ>>
            \o text.content \o <<DQ, ">">>

\* the string pushed to list for a Text whose tag is List
RenderListItem(text) ==
    <<"<", "l", "i", SP>> \o SetFontSize(text.font_size) \o <<">">> \o text.content
    \o <<"<", "/", "l", "i", ">">>

\* format!("<ul>{}</ul>", list.join("\n"))
RenderList(items) == <<"<", "u", "l", ">">> \o Join(items, <<NL>>) \o <<"<", "/", "u", "l", ">">>

GenerateInit == [output |-> <<>>, list |-> <<>>, is_list |-> FALSE]

\* GenerateStep with `continue` where the code returns None
GenerateStepSkipsOthers(g, value) ==
    IF value.kind # "Text" THEN Some(g)
    ELSE IF value.tag.tag = "List" THEN
        Some([g EXCEPT !.list = Append(@, RenderListItem(value)), !.is_list = TRUE])
    ELSE IF g.is_list THEN
        Some([output |-> Append(Append(g.output, RenderList(g.list)), RenderText(value)),
              list |-> <<>>, is_list |-> FALSE])
    ELSE
        Some([g EXCEPT !.output = Append(@, RenderText(value))])

\* GenerateStep that pushes the html of the entry before the pending <ul>
GenerateStepListAfter(g, value) ==
    IF value.kind # "Text" THEN None
    ELSE IF value.tag.tag = "List" THEN
        Some([g EXCEPT !.list = Append(@, RenderListItem(value)), !.is_list = TRUE])
    ELSE IF g.is_list THEN
        Some([output |-> Append(Append(g.output, RenderText(value)), RenderList(g.list)),
              list |-> <<>>, is_list |-> FALSE])
    ELSE
        Some([g EXCEPT !.output = Append(@, RenderText(value))])

\* one iteration of the loop over stack.data: None for a value that is no Text
GenerateStep(g, value) ==
    IF value.kind # "Text" THEN None
    ELSE IF value.tag.tag = "List" THEN
        Some([g EXCEPT !.list = Append(@, RenderListItem(value)), !.is_list = TRUE])
    ELSE IF g.is_list THEN
        Some([output |-> Append(Append(g.output, RenderList(g.list)), RenderText(value)),
              list |-> <<>>, is_list |-> FALSE])
    ELSE
        Some([g EXCEPT !.output = Append(@, RenderText(value))])

Untitled == <<"U", "n", "t", "i", "t", "l", "e", "d">>
NoTheme == <<"n", "o", "n", "e">>
UnwrapOr(opt, default) == IF opt.some THEN opt.val ELSE default

\* the document generate returns: the three holes of its skeleton
Document(g, ttl, thm) ==
    [title |-> UnwrapOr(ttl, Untitled), theme |-> UnwrapOr(thm, NoTheme),
     body |-> Join(g.output, <<NL>>)]

\* ------------------------------------------------------------------ state
tokVars == <<pos, tokens, current_token, in_quote, is_escape>>
stackVars == <<data, scope, title, theme>>
genVars == <<gi, output, list, is_list>>
histVars == <<last, stored, steps>>

NoNode == [node |-> "None"]

\* the output file: not there, there from an earlier run, created empty, written
FileAbsent == [state |-> "absent"]
FileOld == [state |-> "old"]
FileCreated == [state |-> "created"]
FileWritten(doc) == [state |-> "written", html |-> doc]

\* every text of at most n characters of chars
RECURSIVE Texts(_, _)
Texts(chars, n) ==
    IF n = 0 THEN {<<>>}
    ELSE Texts(chars, n - 1)
         \cup {Append(t, c) : t \in {x \in Texts(chars, n - 1) : Len(x) = n - 1}, c \in chars}

\* the state at position p of a run on the source file `src` and the output
\* file `out`, with the nodes ns still to evaluate against the Stack S
Start(p, src, out, ns, S) ==
    /\ pc = p
    /\ source = src
    /\ pos = 1
    /\ tokens = <<>>
    /\ current_token = <<>>
    /\ in_quote = FALSE
    /\ is_escape = FALSE
    /\ nodes = ns
    /\ data = S.data
    /\ scope = S.scope
    /\ title = S.title
    /\ theme = S.theme
    /\ gi = 1
    /\ output = <<>>
    /\ list = <<>>
    /\ is_list = FALSE
    /\ html = None
    /\ file = out
    /\ last = NoNode
    /\ stored = S.scope
    /\ steps = 0
    /\ fault_at = "none"

\* the input files drawn: every text over Alphabet up to MaxLen characters, and
\* every quoted literal of up to MaxItems plain characters and escape sequences
Alphabet == {DQ, BS, SP, "a", "@", "1", "n"}
LiteralItems == {<<"a">>, <<BS, "n">>, <<BS, "t">>, <<BS, "r">>, <<BS, BS>>}
QuotedLiterals == {<<DQ>> \o Concat(items) \o <<DQ>> : items \in Texts(LiteralItems, MaxItems)}
Sources == Texts(Alphabet, MaxLen) \cup QuotedLiterals

Init == \E src \in Sources, out \in {FileAbsent, FileOld} : Start("read", src, out, <<>>, NewStack)

\* main stops at a fault!, at `stage`
Fault(stage) ==
    /\ pc' = "fault"
    /\ fault_at' = stage

\* stav returned None at `stage`.  The Stack is dropped with whatever the
\* failing step had popped and is never read again: it is left as it was when
\* the step began.
Fail(stage) ==
    /\ Fault(stage)
    /\ html' = None
    /\ UNCHANGED stackVars

\* ------------------------------------------------------------------- main
\* MainRead with File::create moved before the call of stav
MainReadCreatesFile ==
    /\ pc = "read"
    /\ \/ pc' = "tokenize" /\ fault_at' = fault_at /\ file' = FileCreated
       \/ Fault("read") /\ file' = file
    /\ UNCHANGED <<source, tokVars, nodes, stackVars, genVars, html, histVars>>

\* read_to_string(filename)
MainRead ==
    /\ pc = "read"
    /\ \/ pc' = "tokenize" /\ fault_at' = fault_at
       \/ Fault("read")
    /\ UNCHANGED <<source, tokVars, nodes, stackVars, genVars, html, file, histVars>>

\* File::create(filename.with_extension("html")), reached only with Some(html)
MainCreate ==
    /\ pc = "create"
    /\ html.some
    /\ \/ pc' = "write" /\ file' = FileCreated /\ fault_at' = fault_at
       \/ Fault("create") /\ file' = file
    /\ UNCHANGED <<source, tokVars, nodes, stackVars, genVars, html, histVars>>

\* output_file.write_all(html.as_bytes())
MainWrite ==
    /\ pc = "write"
    /\ \/ pc' = "done" /\ file' = FileWritten(html.val) /\ fault_at' = fault_at
       \/ Fault("write") /\ file' = file
    /\ UNCHANGED <<source, tokVars, nodes, stackVars, genVars, html, histVars>>

\* ------------------------------------------------------------------- stav
\* tokenize: one character of the source
StavTokenizeChar ==
    /\ pc = "tokenize"
    /\ pos <= Len(source)
    /\ LET st == TokenizeChar([tokens |-> tokens, current_token |-> current_token,
                               in_quote |-> in_quote, is_escape |-> is_escape],
                              source[pos])
       IN  /\ tokens' = st.tokens
           /\ current_token' = st.current_token
           /\ in_quote' = st.in_quote
           /\ is_escape' = st.is_escape
    /\ pos' = pos + 1
    /\ UNCHANGED <<pc, source, nodes, stackVars, genVars, html, file, histVars, fault_at>>

\* tokenize: the end of the source
StavTokenizeEnd ==
    /\ pc = "tokenize"
    /\ pos > Len(source)
    /\ LET r == TokenizeResult([tokens |-> tokens, current_token |-> current_token,
                                in_quote |-> in_quote, is_escape |-> is_escape])
       IN  IF r.some
           THEN /\ tokens' = r.val
                /\ pc' = "parse"
                /\ UNCHANGED <<stackVars, html, fault_at>>
           ELSE /\ tokens' = tokens
                /\ Fail("tokenize")
    /\ UNCHANGED <<source, pos, current_token, in_quote, is_escape, nodes, genVars, file,
                   histVars>>

\* the filter, trim and Node::parse of every token
StavParse ==
    /\ pc = "parse"
    /\ IF ParseTokens(tokens).some
       THEN /\ nodes' = ParseTokens(tokens).val
            /\ pc' = "eval"
            /\ UNCHANGED <<stackVars, html, fault_at>>
       ELSE /\ nodes' = nodes
            /\ Fail("parse")
    /\ UNCHANGED <<source, tokVars, genVars, file, histVars>>

\* token.eval(&mut stack)? for the node n
EvalStep(n) ==
    /\ steps' = steps + 1
    /\ last' = n
    /\ LET r == NodeEval(n, [data |-> data, scope |-> scope, title |-> title,
                             theme |-> theme])
       IN  IF r.some
           THEN /\ data' = r.val.data
                /\ scope' = r.val.scope
                /\ title' = r.val.title
                /\ theme' = r.val.theme
                /\ stored' = IF n = Command("Store")
                             THEN [x \in (DOMAIN stored) \cup {Top(data).text} |->
                                      IF x = Top(data).text THEN data[Len(data) - 1]
                                      ELSE stored[x]]
                             ELSE stored
                /\ UNCHANGED <<pc, html, fault_at>>
           ELSE /\ Fail("eval")
                /\ stored' = stored

\* StavEval that drops the node after the one it evaluates
StavEvalSkipsNext ==
    /\ pc = "eval"
    /\ nodes # <<>>
    /\ EvalStep(Head(nodes))
    /\ nodes' = IF Len(nodes) >= 2 THEN Tail(Tail(nodes)) ELSE Tail(nodes)
    /\ UNCHANGED <<source, tokVars, genVars, file>>

\* for token in tokens: the next node of the parsed source
StavEval ==
    /\ pc = "eval"
    /\ nodes # <<>>
    /\ EvalStep(Head(nodes))
    /\ nodes' = Tail(nodes)
    /\ UNCHANGED <<source, tokVars, genVars, file>>

\* generate(stack) is called after the last node
StavGenerate ==
    /\ pc = "eval"
    /\ nodes = <<>>
    /\ pc' = "generate"
    /\ gi' = 1
    /\ output' = GenerateInit.output
    /\ list' = GenerateInit.list
    /\ is_list' = GenerateInit.is_list
    /\ UNCHANGED <<source, tokVars, nodes, stackVars, html, file, histVars, fault_at>>

\* generate: one entry of stack.data
GenerateValue ==
    /\ pc = "generate"
    /\ gi <= Len(data)
    /\ LET g == GenerateStep([output |-> output, list |-> list, is_list |-> is_list],
                             data[gi])
       IN  IF g.some
           THEN /\ output' = g.val.output
                /\ list' = g.val.list
                /\ is_list' = g.val.is_list
                /\ gi' = gi + 1
                /\ UNCHANGED <<pc, html, stackVars, fault_at>>
           ELSE /\ Fail("generate")
                /\ UNCHANGED genVars
    /\ UNCHANGED <<source, tokVars, nodes, file, histVars>>

\* generate: the document, once every entry is rendered
GenerateEnd ==
    /\ pc = "generate"
    /\ gi > Len(data)
    /\ html' = Some(Document([output |-> output, list |-> list, is_list |-> is_list],
                             title, theme))
    /\ pc' = "create"
    /\ UNCHANGED <<source, tokVars, nodes, stackVars, genVars, file, histVars, fault_at>>

Next ==
    \/ MainRead
    \/ StavTokenizeChar
    \/ StavTokenizeEnd
    \/ StavParse
    \/ StavEval
    \/ StavGenerate
    \/ GenerateValue
    \/ GenerateEnd
    \/ MainCreate
    \/ MainWrite

Spec == Init /\ [][Next]_vars

\* ------------------------------------------------ evaluation of any node list
\* The node list of stav drawn node by node: the literals these tokens parse
\* to, and every command.
TextA == <<"a">>
TextB == <<"b">>
NameX == <<"x">>
NameY == <<"y">>
UrlU == HttpsPrefix \o <<"u">>
LiteralTokens == {<<DQ, "a", DQ>>, <<DQ, "@", "x", DQ>>, <<"1">>, UrlU,
                  <<"@">> \o NameX, <<"@">> \o NameY}
NodeSet == {Literal(ValueParse(t).val) : t \in LiteralTokens} \cup {Command(c) : c \in Commands}

LitA == Literal(TextValue(TextA, None, Paragraph))
LitRefX == Literal(TextValue(<<"@">> \o NameX, None, Paragraph))
LitOne == Literal(IntegerValue(1))
LitSymX == Literal(SymbolValue(NameX))
LitSymY == Literal(SymbolValue(NameY))

\* the node lists already evaluated when the drawing starts:
\*   (nothing);  "a" @x store;  1 @x store "@x" @y store "a"
Prefixes == {<<>>,
             <<LitA, LitSymX, Command("Store")>>,
             <<LitOne, LitSymX, Command("Store"), LitRefX, LitSymY, Command("Store"), LitA>>}

\* the Stack after the for loop of stav over ns (ns evaluates without failure)
RECURSIVE RunNodes(_, _)
RunNodes(ns, S) == IF ns = <<>> THEN S ELSE RunNodes(Tail(ns), NodeEval(ns[1], S).val)

InitEval == \E ns \in Prefixes : Start("eval", <<>>, FileAbsent, <<>>, RunNodes(ns, NewStack))

\* for token in tokens: any next node, for a list of at most MaxSteps nodes
EvalAny ==
    /\ pc = "eval"
    /\ steps < MaxSteps
    /\ \E n \in NodeSet : EvalStep(n)
    /\ UNCHANGED <<source, tokVars, nodes, genVars, file>>

NextEval ==
    \/ EvalAny
    \/ StavGenerate
    \/ GenerateValue
    \/ GenerateEnd

SpecEval == InitEval /\ [][NextEval]_vars

\* ------------------------------------------------- generate of any final stack
StackValues ==
    {TextValue(TextA, None, Paragraph), TextValue(TextB, Some(2), Paragraph),
     TextValue(TextA, None, ListTag), TextValue(TextB, None, ListTag),
     TextValue(TextA, Some(2), ListTag), TextValue(TextA, None, HeadingTag(1)),
     TextValue(TextA, None, LinkTag(UrlU)), TextValue(<<>>, None, ImageTag(UrlU)),
     TextValue(TextA, None, BlockQuoteTag),
     IntegerValue(1), LinkValue(UrlU), SymbolValue(NameX)}

InitGen ==
    \E d \in Texts(StackValues, MaxStack) :
        Start("generate", <<>>, FileAbsent, <<>>, [NewStack EXCEPT !.data = d])

NextGen ==
    \/ GenerateValue
    \/ GenerateEnd

SpecGen == InitGen /\ [][NextGen]_vars

\* ------------------------------------------- evaluation of any Text literal
\* One quoted token over LiteralAlphabet, parsed by stav and evaluated against
\* a scope that binds x to a value of any kind, or binds nothing.
LiteralAlphabet == {"a", "@", "x", SP, TAB}
BoundValues == {IntegerValue(0 - 12), TextValue(TextB, None, Paragraph), LinkValue(UrlU),
                SymbolValue(NameY)}
Scopes == {EmptyMap} \cup {MapInsert(EmptyMap, NameX, v) : v \in BoundValues}

InitLit ==
    \E inner \in Texts(LiteralAlphabet, MaxContent), sc \in Scopes :
        Start("eval", <<DQ>> \o inner \o <<DQ>>, FileAbsent,
              ParseTokens(Tokenize(<<DQ>> \o inner \o <<DQ>>).val).val,
              [NewStack EXCEPT !.scope = sc])

NextLit ==
    \/ StavEval
    \/ StavGenerate

SpecLit == InitLit /\ [][NextLit]_vars

\* ------------------------------------------- evaluation of a source program
\* the keyword Command::parse reads for each command
Keyword ==
    [Heading |-> <<"h", "e", "a", "d", "i", "n", "g">>,
     FontSize |-> <<"f", "o", "n", "t", "-", "s", "i", "z", "e">>,
     Link |-> <<"l", "i", "n", "k">>,
     BlockQuote |-> <<"b", "l", "o", "c", "k", "-", "q", "u", "o", "t", "e">>,
     List |-> <<"l", "i", "s", "t">>,
     Image |-> <<"i", "m", "a", "g", "e">>,
     Title |-> <<"t", "i", "t", "l", "e">>,
     Theme |-> <<"t", "h", "e", "m", "e">>,
     Load |-> <<"l", "o", "a", "d">>,
     Concat |-> <<"c", "o", "n", "c", "a", "t">>,
     Store |-> <<"s", "t", "o", "r", "e">>,
     Dup |-> <<"d", "u", "p">>,
     Swap |-> <<"s", "w", "a", "p">>,
     Pop |-> <<"p", "o", "p">>]

QuotedA == <<DQ>> \o TextA \o <<DQ>>
QuotedB == <<DQ>> \o TextB \o <<DQ>>
RefX == <<"@">> \o NameX

\* the words a program is drawn from: every keyword and a literal of every kind
ProgWords == {Keyword[c] : c \in Commands} \cup {QuotedA, QuotedB, <<"1">>, UrlU, RefX}

\* the words every drawn program starts with:
\*   (nothing);  "a" title "b";  "b" @x store "a" theme "a" "b";  "a" 1;
\*   "a" https://u;  "b" @x store "a" @x;  pop "a"
ProgPrefixes ==
    {<<>>,
     <<QuotedA, Keyword.Title, QuotedB>>,
     <<QuotedB, RefX, Keyword.Store, QuotedA, Keyword.Theme, QuotedA, QuotedB>>,
     <<QuotedA, <<"1">>>>,
     <<QuotedA, UrlU>>,
     <<QuotedB, RefX, Keyword.Store, QuotedA, RefX>>,
     <<Keyword.Pop, QuotedA>>}

\* the state of stav after tokenize and Node::parse of the source file src,
\* about to evaluate the first node
Parsed(src) ==
    LET st == TokenizeLoop(TokenizeInit, src) IN
    /\ pc = "eval"
    /\ source = src
    /\ pos = Len(src) + 1
    /\ tokens = TokenizeResult(st).val
    /\ current_token = st.current_token
    /\ in_quote = st.in_quote
    /\ is_escape = st.is_escape
    /\ nodes = ParseTokens(TokenizeResult(st).val).val
    /\ data = NewStack.data
    /\ scope = NewStack.scope
    /\ title = NewStack.title
    /\ theme = NewStack.theme
    /\ gi = 1
    /\ output = <<>>
    /\ list = <<>>
    /\ is_list = FALSE
    /\ html = None
    /\ file = FileAbsent
    /\ last = NoNode
    /\ stored = NewStack.scope
    /\ steps = 0
    /\ fault_at = "none"

\* the source file of a program: its words, one space between them
InitProg ==
    \E pre \in ProgPrefixes, ws \in Texts(ProgWords, MaxProg) : Parsed(Join(pre \o ws, <<SP>>))

NextProg ==
    \/ StavEval
    \/ StavGenerate
    \/ GenerateValue
    \/ GenerateEnd

SpecProg == InitProg /\ [][NextProg]_vars

\* ------------------------------------------------ classification of any token
\* The source files drawn: every text over TokenAlphabet up to MaxTok
\* characters, every keyword bare, quoted, after @ and after a digit, and
\* the numerals around the ends of the i32 range.
TokenAlphabet == {DQ, "@", "1", "-", "p", "o", SP}
KeywordTexts ==
    UNION {{Keyword[c], <<DQ>> \o Keyword[c] \o <<DQ>>, <<"@">> \o Keyword[c],
            <<"1">> \o Keyword[c], Keyword[c] \o <<"1">>} : c \in Commands}
LinkTexts == {UrlU, HttpsPrefix, Tail(HttpsPrefix), <<"@">> \o UrlU, <<"1">> \o UrlU}

Signs == {<<>>, <<"+">>, <<"-">>}
NumeralStems == {<<>>, <<"2", "1", "4", "7", "4", "8", "3", "6", "4">>,
                 <<"0", "0", "2", "1", "4", "7", "4", "8", "3", "6", "4">>,
                 <<"4", "2", "9", "4", "9", "6", "7", "2", "9">>}
NumeralDigits == {"0", "5", "6", "7", "8", "9"}
Numerals ==
    {sign \o stem \o ds : sign \in Signs, stem \in NumeralStems,
                           ds \in Texts(NumeralDigits, MaxDigits)}

TokenSources == Texts(TokenAlphabet, MaxTok) \cup KeywordTexts \cup LinkTexts \cup Numerals

InitParse == \E src \in TokenSources : Start("tokenize", src, FileAbsent, <<>>, NewStack)

NextParse ==
    \/ StavTokenizeChar
    \/ StavTokenizeEnd
    \/ StavParse

SpecParse == InitParse /\ [][NextParse]_vars

\* ================================================================== claims
AllText(d) == \A i \in 1..Len(d) : d[i].kind = "Text"
IsListEntry(v) == v.kind = "Text" /\ v.tag.tag = "List"

\* the length of the run of List entries that d starts with
RECURSIVE ListRun(_)
ListRun(d) == IF d # <<>> /\ IsListEntry(d[1]) THEN 1 + ListRun(Tail(d)) ELSE 0

\* the fragments of a stack of Text values when every maximal run of List
\* entries, a run that reaches the end of the stack included, is one <ul>
RECURSIVE GroupedFragments(_)
GroupedFragments(d) ==
    IF d = <<>> THEN <<>>
    ELSE IF IsListEntry(d[1]) THEN
        <<RenderList([i \in 1..ListRun(d) |-> RenderListItem(d[i])])>>
        \o GroupedFragments(SubSeq(d, ListRun(d) + 1, Len(d)))
    ELSE <<RenderText(d[1])>> \o GroupedFragments(Tail(d))

\* C1: when generate has returned the document of a stack of Text values, its
\* body is the fragments of the stack in order with every maximal run of List
\* entries rendered as exactly one <ul> around the <li> items of the run,
\* whether the run is followed by another entry or ends the stack.
C1_EveryListRunIsOneUl ==
    (pc = "create" /\ AllText(data)) => html.val.body = Join(GroupedFragments(data), <<NL>>)

\* C10: generate returns a document exactly when every entry of the stack is a
\* Text (an empty stack gives an empty body); with an Integer, Link or Symbol
\* at any position it returns None.
C10_GenerateIffAllText ==
    /\ pc = "create" => (html.some /\ AllText(data))
    /\ (pc = "create" /\ data = <<>>) => html.val.body = <<>>
    /\ (pc = "fault" /\ fault_at = "generate") => (html = None /\ ~AllText(data))
    /\ (pc = "generate" /\ gi > 1) => AllText(SubSeq(data, 1, gi - 1))

\* C10: generate has failed on a stack whose only entry that is no Text lies
\* between two Text entries
C10_Witness ==
    /\ pc = "fault"
    /\ fault_at = "generate"
    /\ html = None
    /\ Len(data) = 3
    /\ data[1].kind = "Text"
    /\ data[2].kind = "Symbol"
    /\ data[3].kind = "Text"

\* ------------------------------------------------------------- evaluation
\* the step now taken is the evaluation of node n
Evaluating(n) == pc = "eval" /\ steps' = steps + 1 /\ last' = n
Succeeds == pc' = "eval"
Fails == pc' = "fault" /\ fault_at' = "eval" /\ html' = None

\* the command table: the kinds a command pops, from the top down
Pops(c) ==
    CASE c \in {"Heading", "FontSize"} -> <<"Integer", "Text">>
      [] c = "Link" -> <<"Link", "Text">>
      [] c \in {"BlockQuote", "List", "Title", "Theme"} -> <<"Text">>
      [] c = "Image" -> <<"Link">>
      [] c = "Load" -> <<"Symbol">>
      [] c = "Store" -> <<"Symbol", "Value">>
      [] c = "Concat" -> <<"Text", "Text">>
      [] c \in {"Dup", "Pop"} -> <<"Value">>
      [] c = "Swap" -> <<"Value", "Value">>

\* the stack d is too short for command c, or holds another kind where c names one
Unsatisfied(c, d) ==
    \/ Len(d) < Len(Pops(c))
    \/ \E i \in 1..Len(Pops(c)) :
          Pops(c)[i] # "Value" /\ d[Len(d) - i + 1].kind # Pops(c)[i]

\* C2: whenever a command is evaluated on a stack that holds fewer entries than
\* the command pops, or another kind than the command table names at one of
\* those positions, the evaluation fails and stav returns None.
C2_UnsatisfiedCommandFails ==
    [][\A c \in Commands : (Evaluating(Command(c)) /\ Unsatisfied(c, data)) => Fails]_vars

\* C2: heading has failed on a stack with a Text on top instead of an Integer
C2_Witness ==
    /\ pc = "fault"
    /\ fault_at = "eval"
    /\ html = None
    /\ last = Command("Heading")
    /\ data # <<>>
    /\ Top(data).kind = "Text"

\* what the scope binds, as a set of <<name, value>>
Bindings(sc) == {<<k, sc[k]>> : k \in DOMAIN sc}

\* C3: a successful load of n pushes, in place of the Symbol, the operand of the
\* last successful store to n; a successful store binds its own name to its
\* operand and changes no other binding; no other step changes the scope.
C3_LoadReturnsLastStore ==
    [][/\ (Evaluating(Command("Load")) /\ Succeeds) =>
              /\ Top(data).text \in DOMAIN stored
              /\ data' = Append(Rest(data), stored[Top(data).text])
       /\ (Evaluating(Command("Store")) /\ Succeeds) =>
              /\ Bindings(scope') \ {<<Top(data).text, data[Len(data) - 1]>>}
                    = {b \in Bindings(scope) : b[1] # Top(data).text}
              /\ <<Top(data).text, data[Len(data) - 1]>> \in Bindings(scope')
       /\ ~(Evaluating(Command("Store")) /\ Succeeds) => scope' = scope]_vars

\* C3: after "a" @x store, the nodes 1 @x load have left the stored Text on
\* top of the Integer pushed in between
C3_Witness ==
    /\ pc = "eval"
    /\ last = Command("Load")
    /\ steps = 3
    /\ data = <<IntegerValue(1), TextValue(TextA, None, Paragraph)>>
    /\ stored[NameX] = TextValue(TextA, None, Paragraph)

\* the names the tokens of a Text literal's content reference
References(content) ==
    {StripPrefix(Tokenize(content).val[i], <<"@">>).val :
        i \in {j \in 1..Len(Tokenize(content).val) :
                  StripPrefix(Tokenize(content).val[j], <<"@">>).some}}

\* the content with every reference replaced by the string of its binding in sc
Resolved(content, sc) ==
    Join([i \in 1..Len(Tokenize(content).val) |->
             IF StripPrefix(Tokenize(content).val[i], <<"@">>).some
             THEN ValueToString(sc[StripPrefix(Tokenize(content).val[i], <<"@">>).val])
             ELSE Tokenize(content).val[i]],
         <<SP>>)

\* C4: a Text literal is pushed with its references resolved in the scope of
\* that step when the scope binds them all, and fails the compilation when it
\* does not; a later store leaves what was pushed before its operands as it is.
C4_ReferencesResolvedAtEvaluation ==
    [][/\ \A n \in NodeSet :
              (n.node = "Literal" /\ n.value.kind = "Text" /\ Evaluating(n)) =>
                  IF References(n.value.content) \subseteq DOMAIN scope
                  THEN /\ Succeeds
                       /\ data' = Append(data, [n.value EXCEPT !.content =
                                                   Resolved(n.value.content, scope)])
                  ELSE Fails
       /\ (Evaluating(Command("Store")) /\ Succeeds) =>
              data' = SubSeq(data, 1, Len(data) - 2)]_vars

\* C4: after 1 @x store ... the literal "@x" was pushed as "1", and the later
\* "a" @x store has rebound x and left that content as it was
C4_Witness ==
    /\ pc = "eval"
    /\ last = Command("Store")
    /\ steps = 4
    /\ data = <<TextValue(TextA, None, Paragraph), TextValue(<<"1">>, None, Paragraph)>>
    /\ scope[NameX] = TextValue(TextA, None, Paragraph)

\* ------------------------------------------------------------ Text literals
\* the whitespace-delimited words of s
RECURSIVE WordLen(_)
WordLen(s) == IF s = <<>> \/ s[1] \in Whitespace THEN 0 ELSE 1 + WordLen(Tail(s))
RECURSIVE Words(_)
Words(s) ==
    IF TrimStart(s) = <<>> THEN <<>>
    ELSE <<SubSeq(TrimStart(s), 1, WordLen(TrimStart(s)))>>
         \o Words(SubSeq(TrimStart(s), WordLen(TrimStart(s)) + 1, Len(TrimStart(s))))

\* the names of the words of s that begin with @
AtNames(s) == {Tail(Words(s)[i]) : i \in {j \in 1..Len(Words(s)) : Words(s)[j][1] = "@"}}

\* the word w, or the string of the binding it names
Substituted(w, sc) == IF w[1] = "@" THEN ValueToString(sc[Tail(w)]) ELSE w

\* a Text literal has just been evaluated
LiteralEvaluated ==
    steps = 1 /\ pc \in {"eval", "fault"} /\ last.node = "Literal" /\ last.value.kind = "Text"

\* C5: when a Text literal whose @-words are all bound is evaluated, the words
\* of the pushed content are the words of the literal's content, in order,
\* each word that begins with @ replaced by the string of its binding, however
\* much whitespace separates the words.
C5_EveryAtWordReplaced ==
    (LiteralEvaluated /\ AtNames(last.value.content) \subseteq DOMAIN scope) =>
        /\ pc = "eval"
        /\ Words(Top(data).content)
              = Concat([i \in 1..Len(Words(last.value.content)) |->
                           Words(Substituted(Words(last.value.content)[i], scope))])

\* C6: the content a Text literal that references no name is pushed with holds
\* no tab, CR or LF and no two adjacent whitespace characters.
C6_WhitespaceNormalized ==
    (LiteralEvaluated /\ pc = "eval" /\ AtNames(last.value.content) = {}) =>
        /\ \A i \in 1..Len(Top(data).content) : Top(data).content[i] \notin {TAB, CR, NL}
        /\ \A i \in 1..(Len(Top(data).content) - 1) :
              ~(Top(data).content[i] \in Whitespace /\ Top(data).content[i + 1] \in Whitespace)

\* ---------------------------------------------------------------- tokenize
\* The lexical grammar by position: the character at i is escaped when it
\* follows, inside a quoted region, a backslash that is not escaped itself;
\* the text is inside a quoted region after i when an odd number of the
\* double quotes up to i are not escaped.
RECURSIVE Escaped(_, _)
RECURSIVE OpenAfter(_, _)
Escaped(s, i) == i > 1 /\ s[i - 1] = BS /\ ~Escaped(s, i - 1) /\ OpenAfter(s, i - 2)
OpenAfter(s, i) ==
    IF i = 0 THEN FALSE
    ELSE IF s[i] = DQ /\ ~Escaped(s, i) THEN ~OpenAfter(s, i - 1)
    ELSE OpenAfter(s, i - 1)

UnterminatedQuote(s) == OpenAfter(s, Len(s))

\* the number of backslashes s ends with
RECURSIVE TrailingBackslashes(_)
TrailingBackslashes(s) ==
    IF s # <<>> /\ s[Len(s)] = BS THEN 1 + TrailingBackslashes(SubSeq(s, 1, Len(s) - 1)) ELSE 0

\* s ends with a backslash that no backslash before it pairs with
UnmatchedTrailingBackslash(s) == TrailingBackslashes(s) % 2 = 1

\* tokenize has returned
Tokenized == pc \notin {"read", "tokenize"} /\ pos > Len(source)
TokenizeFailed == Tokenized /\ pc = "fault" /\ fault_at = "tokenize"

\* C7, as stated: every source with an unterminated double quote, or ending
\* with an unmatched backslash inside or outside a quoted region, fails
\* tokenization.
C7_Original ==
    (Tokenized /\ (UnterminatedQuote(source) \/ UnmatchedTrailingBackslash(source)))
        => TokenizeFailed

\* C7, amended: tokenization fails for every source that ends inside a quoted
\* region, which is where every source ending with an unmatched backslash
\* inside a quoted region ends; a source that ends outside every quoted
\* region tokenizes, also when its last character is a backslash.
C7_UnterminatedQuoteFails ==
    Tokenized =>
        /\ UnterminatedQuote(source) => TokenizeFailed
        /\ (UnmatchedTrailingBackslash(source) /\ OpenAfter(source, Len(source) - 1))
               => TokenizeFailed
        /\ ~UnterminatedQuote(source) => ~TokenizeFailed

\* C7: tokenization has failed on a source that ends with an unmatched
\* backslash inside a quoted region
C7_Witness ==
    /\ TokenizeFailed
    /\ source = <<DQ, "a", BS>>

\* the text a quoted literal's inner part stands for: \n, \t, \r and \\ are a
\* newline, a tab, a carriage return and a backslash
RECURSIVE Intended(_)
Intended(s) ==
    IF s = <<>> THEN <<>>
    ELSE IF s[1] = BS THEN
        <<(CASE s[2] = "n" -> NL [] s[2] = "t" -> TAB [] s[2] = "r" -> CR [] OTHER -> s[2])>>
        \o Intended(SubSeq(s, 3, Len(s)))
    ELSE <<s[1]>> \o Intended(Tail(s))

Inner(s) == SubSeq(s, 2, Len(s) - 1)

\* C8: a quoted literal of plain characters and the escape sequences \n, \t,
\* \r and \\ that begins and ends with a plain character is tokenized and
\* parsed to the Text of the text it stands for.
C8_EscapesRoundTrip ==
    (pc = "eval" /\ steps = 0 /\ source \in QuotedLiterals /\ Len(source) > 2
        /\ source[2] # BS /\ source[Len(source) - 2] # BS) =>
        nodes = <<Literal(TextValue(Intended(Inner(source)), None, Paragraph))>>

\* ------------------------------------------------------------------- main
\* the Stack stav ends with, or None at its first failure, in one piece
RECURSIVE EvalAll(_, _)
EvalAll(ns, S) ==
    IF ns = <<>> THEN Some(S)
    ELSE IF NodeEval(ns[1], S).some THEN EvalAll(Tail(ns), NodeEval(ns[1], S).val)
    ELSE None

\* no stage of the compilation of src fails
Compiles(src) ==
    /\ Tokenize(src).some
    /\ ParseTokens(Tokenize(src).val).some
    /\ EvalAll(ParseTokens(Tokenize(src).val).val, NewStack).some
    /\ AllText(EvalAll(ParseTokens(Tokenize(src).val).val, NewStack).val.data)

\* C9: stav returns a document only when tokenizing, classifying, evaluating
\* and generating have all succeeded, and then the whole document; after a
\* failure of any of them it has returned None.  The output file is created
\* or written only after stav has returned Some; until then it is as it was.
C9_NoOutputOnFailure ==
    /\ html.some =>
          /\ Compiles(source)
          /\ gi = Len(data) + 1
          /\ html.val = Document([output |-> output], title, theme)
    /\ (pc = "fault" /\ fault_at \in {"tokenize", "parse", "eval", "generate"}) =>
          (html = None /\ file \in {FileAbsent, FileOld})
    /\ file \notin {FileAbsent, FileOld} => (html.some /\ pc \in {"write", "done", "fault"})
    /\ file.state = "written" => file.html = html.val

\* C9: the evaluation of a source has failed (a Text literal that references
\* an unbound name) and the output file of an earlier run is still in place
C9_Witness ==
    /\ pc = "fault"
    /\ fault_at = "eval"
    /\ html = None
    /\ file = FileOld
    /\ last.node = "Literal"

\* ---------------------------------------------------------------- programs
\* the nodes of the source program, once it is tokenized
Prog == ParseTokens(tokens).val

\* the position of the last node among the first k of p that is the command c,
\* or 0
RECURSIVE LastIndex(_, _, _)
LastIndex(p, c, k) ==
    IF k = 0 THEN 0 ELSE IF p[k] = Command(c) THEN k ELSE LastIndex(p, c, k - 1)

\* the content of the operand of the last command c among the first k nodes of
\* p: the Text on top of the stack when that command was run
LastOperand(p, c, k) ==
    LET i == LastIndex(p, c, k)
    IN  IF i = 0 THEN None
        ELSE Some(Top(EvalAll(SubSeq(p, 1, i - 1), NewStack).val.data).content)

\* C11: after every successfully evaluated prefix of a program, title and theme
\* are the contents of the operands of the last title and the last theme
\* command of the prefix (none when the prefix has no such command, whatever
\* other commands it has), and the document of the program carries them as
\* its <title> and its stylesheet, "Untitled" and "none" standing for none.
C11_TitleAndThemeFromLastCommand ==
    LET p == Prog IN
    /\ pc = "eval" =>
          /\ title = LastOperand(p, "Title", steps)
          /\ theme = LastOperand(p, "Theme", steps)
    /\ pc = "create" =>
          /\ html.val.title = UnwrapOr(LastOperand(p, "Title", Len(p)), Untitled)
          /\ html.val.theme = UnwrapOr(LastOperand(p, "Theme", Len(p)), NoTheme)

\* C11: the document of "a" title "b" title: the second title command has
\* replaced the title of the first, and no theme command ran
C11_Witness ==
    /\ pc = "create"
    /\ Prog = <<LitA, Command("Title"), Literal(TextValue(TextB, None, Paragraph)),
                Command("Title")>>
    /\ html.val.title = TextB
    /\ html.val.theme = NoTheme

\* ------------------------------------------------------ commands, one by one
\* C12: image, evaluated on a stack whose top is Link(url), succeeds and
\* replaces that top entry alone by Text{content: "", font_size: none,
\* tag: Image(url)}: the entries beneath stay as they are and in their order,
\* and scope, title and theme are unchanged.
C12_ImageReplacesOnlyTheLink ==
    [][(Evaluating(Command("Image")) /\ data # <<>> /\ Top(data).kind = "Link") =>
           /\ Succeeds
           /\ Len(data') = Len(data)
           /\ SubSeq(data', 1, Len(data) - 1) = SubSeq(data, 1, Len(data) - 1)
           /\ Top(data') = TextValue(<<>>, None, ImageTag(Top(data).text))
           /\ UNCHANGED <<scope, title, theme>>]_vars

\* C12: "a" https://u image has left the Text "a" beneath the image
C12_Witness ==
    /\ pc = "eval"
    /\ last = Command("Image")
    /\ steps = 3
    /\ data = <<TextValue(TextA, None, Paragraph), TextValue(<<>>, None, ImageTag(UrlU))>>

\* ---------------------------------------------------------------- rendering
\* the generator table: ' style="font-size: {size}px;"' when font_size is set,
\* nothing when it is not
TableStyle(font_size) ==
    IF font_size.some
    THEN <<SP, "s", "t", "y", "l", "e", "=", DQ, "f", "o", "n", "t", "-", "s", "i", "z", "e",
           ":", SP>> \o IntToString(font_size.val) \o <<"p", "x", ";", DQ>>
    ELSE <<>>

\* the element the generator table gives for a Text
TableElement(text) ==
    CASE text.tag.tag = "Paragraph" ->
            <<"<", "p">> \o TableStyle(text.font_size) \o <<">">> \o text.content
            \o <<"<", "/", "p", ">">>
      [] text.tag.tag = "Heading" ->
            <<"<", "h">> \o IntToString(text.tag.level) \o TableStyle(text.font_size)
            \o <<">">> \o text.content \o <<"<", "/", "h">> \o IntToString(text.tag.level)
            \o <<">">>
      [] text.tag.tag = "Link" ->
            <<"<", "a", SP, "h", "r", "e", "f", "=", DQ>> \o text.tag.url \o <<DQ>>
            \o TableStyle(text.font_size) \o <<">">> \o text.content \o <<"<", "/", "a", ">">>
      [] text.tag.tag = "BlockQuote" ->
            <<"<", "b", "l", "o", "c", "k", "q", "u", "o", "t", "e">>
            \o TableStyle(text.font_size) \o <<">">> \o text.content
            \o <<"<", "/", "b", "l", "o", "c", "k", "q", "u", "o", "t", "e", ">">>
      [] text.tag.tag = "Image" ->
            <<"<", "i", "m", "g", SP, "s", "r", "c", "=", DQ>> \o text.tag.url
            \o <<DQ, SP, "a", "l", "t", "=", DQ>> \o text.content \o <<DQ, ">">>
      [] text.tag.tag = "List" ->
            <<"<", "l", "i">> \o TableStyle(text.font_size) \o <<">">> \o text.content
            \o <<"<", "/", "l", "i", ">">>

\* the fragments of a stack of Text values by the table, the items of a run of
\* List entries inside one <ul>
RECURSIVE TableFragments(_)
TableFragments(d) ==
    IF d = <<>> THEN <<>>
    ELSE IF IsListEntry(d[1]) THEN
        <<(<<"<", "u", "l", ">">> \o Join([i \in 1..ListRun(d) |-> TableElement(d[i])], <<NL>>)
           \o <<"<", "/", "u", "l", ">">>)>>
        \o TableFragments(SubSeq(d, ListRun(d) + 1, Len(d)))
    ELSE <<TableElement(d[1])>> \o TableFragments(Tail(d))

\* C13: in the document of a stack of Text values whose last entry is no List
\* entry, every Text is rendered as exactly the element the generator table
\* gives for its tag, with the style attribute exactly when font_size is set
\* and the tag is not Image and nothing extra when it is not set: an unstyled
\* heading is <h1>content</h1>, an unstyled list item <li>content</li>.
C13_EveryTextRendersAsItsTableElement ==
    (pc = "create" /\ AllText(data) /\ data # <<>> /\ ~IsListEntry(Top(data))) =>
        html.val.body = Join(TableFragments(data), <<NL>>)

\* --------------------------------------------------------- order of evaluation
\* C14: the nodes of a program are evaluated in source order, one step for each
\* and none twice: after k steps the nodes still to come are the program
\* without its first k nodes and the Stack is the fold of Node::eval over
\* those k; a program of N nodes takes at most N steps and is rendered only
\* after N of them; a failure is that of the first node whose evaluation
\* fails, and no step follows it.
C14_LinearEvaluation ==
    /\ [](LET p == Prog IN
          /\ steps <= Len(p)
          /\ nodes = SubSeq(p, steps + 1, Len(p))
          /\ steps >= 1 => last = p[steps]
          /\ pc = "eval" =>
                /\ EvalAll(SubSeq(p, 1, steps), NewStack).some
                /\ <<data, scope, title, theme>> =
                      LET S == EvalAll(SubSeq(p, 1, steps), NewStack).val
                      IN  <<S.data, S.scope, S.title, S.theme>>
          /\ pc \in {"generate", "create"} => steps = Len(p)
          /\ (pc = "fault" /\ fault_at = "eval") =>
                /\ steps >= 1
                /\ EvalAll(SubSeq(p, 1, steps - 1), NewStack).some
                /\ ~NodeEval(p[steps], EvalAll(SubSeq(p, 1, steps - 1), NewStack).val).some)
    /\ [][/\ pc # "fault"
          /\ steps' \in {steps, steps + 1}
          /\ steps' = steps + 1 => (pc = "eval" /\ last' = Head(nodes) /\ nodes' = Tail(nodes))
          /\ steps' = steps => nodes' = nodes]_vars

\* C14: the first node of pop "a" ... has failed at the first step, and the
\* nodes after it are left unevaluated
C14_Witness ==
    /\ pc = "fault"
    /\ fault_at = "eval"
    /\ steps = 1
    /\ last = Command("Pop")
    /\ Len(Prog) >= 2
    /\ nodes = Tail(Prog)

\* ------------------------------------------------------------- stack depth
\* the amount by which the successful evaluation of node n changes the depth
Delta(n) ==
    IF n.node = "Literal" THEN 1
    ELSE CASE n.cmd = "Dup" -> 1
           [] n.cmd \in {"BlockQuote", "Image", "List", "Load", "Swap"} -> 0
           [] n.cmd \in {"Heading", "FontSize", "Link", "Title", "Theme", "Concat", "Pop"} -> 0 - 1
           [] n.cmd = "Store" -> 0 - 2

\* the sum of the amounts of the first k nodes of p
RECURSIVE SumDelta(_, _)
SumDelta(p, k) == IF k = 0 THEN 0 ELSE SumDelta(p, k - 1) + Delta(p[k])

\* C15: every successfully evaluated node changes the depth of the data stack
\* by the fixed amount of the node (any literal +1, dup +1, block-quote,
\* image, list, load and swap 0, heading, font-size, link, title, theme,
\* concat and pop -1, store -2), and after every successful prefix of a
\* program the depth is the sum of the amounts over the prefix, which is
\* never negative.
C15_DepthChangesByFixedAmount ==
    /\ [](pc = "eval" =>
             /\ Len(data) = SumDelta(Prog, steps)
             /\ \A k \in 0..steps : SumDelta(Prog, k) >= 0)
    /\ [][(pc = "eval" /\ steps' = steps + 1 /\ pc' = "eval") =>
             Len(data') = Len(data) + Delta(Head(nodes))]_vars

\* C15: the store that ends "b" @x store "a" @x store has taken the depth from
\* two to zero
C15_Witness ==
    /\ pc = "eval"
    /\ steps = 6
    /\ last = Command("Store")
    /\ data = <<>>
    /\ SumDelta(Prog, 5) = 2

\* ------------------------------------------------- Text-modifying commands
\* the entries of d beneath its k topmost
Beneath(d, k) == SubSeq(d, 1, Len(d) - k)

\* C16: a successful heading, link, block-quote or list pushes its Text operand
\* back with the tag replaced and content and font_size kept; a successful
\* font-size pushes it back with font_size replaced and content and tag kept;
\* a successful concat pushes a Text with the content of the lower operand
\* followed by that of the top operand and the tag and font_size of the lower
\* operand.  The entries beneath the operands stay as they are.
C16_OnlyTheNamedFieldChanges ==
    [][/\ (Evaluating(Command("Heading")) /\ Succeeds) =>
              data' = Append(Beneath(data, 2),
                             TextValue(data[Len(data) - 1].content,
                                       data[Len(data) - 1].font_size,
                                       HeadingTag(Top(data).int)))
       /\ (Evaluating(Command("Link")) /\ Succeeds) =>
              data' = Append(Beneath(data, 2),
                             TextValue(data[Len(data) - 1].content,
                                       data[Len(data) - 1].font_size,
                                       LinkTag(Top(data).text)))
       /\ (Evaluating(Command("BlockQuote")) /\ Succeeds) =>
              data' = Append(Beneath(data, 1),
                             TextValue(Top(data).content, Top(data).font_size, BlockQuoteTag))
       /\ (Evaluating(Command("List")) /\ Succeeds) =>
              data' = Append(Beneath(data, 1),
                             TextValue(Top(data).content, Top(data).font_size, ListTag))
       /\ (Evaluating(Command("FontSize")) /\ Succeeds) =>
              data' = Append(Beneath(data, 2),
                             TextValue(data[Len(data) - 1].content, Some(Top(data).int),
                                       data[Len(data) - 1].tag))
       /\ (Evaluating(Command("Concat")) /\ Succeeds) =>
              data' = Append(Beneath(data, 2),
                             TextValue(data[Len(data) - 1].content \o Top(data).content,
                                       data[Len(data) - 1].font_size,
                                       data[Len(data) - 1].tag))]_vars

\* C16: list "a" concat, run on a stack that holds the Text "a", has pushed
\* the content "aa" with the List tag of the lower operand
C16_Witness ==
    /\ pc = "eval"
    /\ steps = 3
    /\ last = Command("Concat")
    /\ data = <<TextValue(TextA \o TextA, None, ListTag)>>

\* ------------------------------------------------------- order of the body
\* d without the run of List entries it ends with: the entries up to the last
\* one that is no List entry
RECURSIVE UpToLastNonList(_)
UpToLastNonList(d) ==
    IF d # <<>> /\ IsListEntry(Top(d)) THEN UpToLastNonList(Rest(d)) ELSE d

\* C17: the body of the document of a stack of Text values is its fragments
\* in bottom-to-top stack order, a newline between them: the fragment of
\* every entry that is no List entry, in stack order, and the <ul> of every
\* list group that has an entry above it at the place of the group, after
\* the fragments of the entries below it and immediately before the fragment
\* of the entry above it.
C17_FragmentsInStackOrder ==
    (pc = "create" /\ AllText(data)) =>
        /\ output = GroupedFragments(UpToLastNonList(data))
        /\ html.val.body = Join(output, <<NL>>)

\* C17: a paragraph, a list item and a heading have given three fragments, the
\* <ul> between the <p> and the <h1>
C17_Witness ==
    /\ pc = "create"
    /\ Len(data) = 3
    /\ data[1].tag.tag = "Paragraph"
    /\ IsListEntry(data[2])
    /\ data[3].tag.tag = "Heading"
    /\ output = <<RenderText(data[1]), RenderList(<<RenderListItem(data[2])>>),
                  RenderText(data[3])>>

\* ---------------------------------------------------------- escaped quotes
\* s is one quoted literal whose only double quotes between the enclosing two
\* are escaped ones, and there is at least one
EscapedQuoteLiteral(s) ==
    /\ Len(s) >= 4
    /\ s[1] = DQ
    /\ s[Len(s)] = DQ
    /\ ~Escaped(s, Len(s))
    /\ \E i \in 2..(Len(s) - 1) : s[i] = DQ
    /\ \A i \in 2..(Len(s) - 1) : s[i] = DQ => Escaped(s, i)

Has(s, c) == \E i \in 1..Len(s) : s[i] = c

\* C18: a source that is one quoted literal with an escaped double quote
\* compiles: no stage of stav fails on it and the Text it pushes has the
\* double quote in its content; and the evaluation of a Text literal whose
\* content has no word that begins with @ never fails.
C18_EscapedQuoteAccepted ==
    /\ (EscapedQuoteLiteral(source) /\ pc = "fault") =>
           fault_at \notin {"tokenize", "parse", "eval", "generate"}
    /\ (EscapedQuoteLiteral(source) /\ pc = "eval" /\ steps = 1) =>
           (Top(data).kind = "Text" /\ Has(Top(data).content, DQ))
    /\ (LiteralEvaluated /\ AtNames(last.value.content) = {}) => pc = "eval"

\* ------------------------------------------------------------ classification
\* the forms of the specification that the trimmed token t matches
Forms(t) ==
    {f \in {"Text", "Integer", "Link", "Symbol", "Command"} :
        CASE f = "Text" -> Len(t) >= 2 /\ t[1] = DQ /\ t[Len(t)] = DQ
          [] f = "Integer" -> ParseI32(t).some
          [] f = "Link" -> StartsWith(t, HttpsPrefix)
          [] f = "Symbol" -> t # <<>> /\ t[1] = "@"
          [] f = "Command" -> \E c \in Commands : Keyword[c] = t}

\* the form of a node
FormOf(n) == IF n.node = "Command" THEN "Command" ELSE n.value.kind

\* the classification in the priority of the specification: quoted text,
\* integer, link, symbol (the literal forms, in the order of Value::parse),
\* then command keyword
SpecOrderParse(t) ==
    IF ValueParse(t).some THEN Some(Literal(ValueParse(t).val))
    ELSE IF CommandParse(t).some THEN Some(Command(CommandParse(t).val))
    ELSE None

\* the tokens stav classifies: those not empty when trimmed, trimmed
RECURSIVE TrimmedTokens(_)
TrimmedTokens(ts) ==
    IF ts = <<>> THEN <<>>
    ELSE IF Trim(ts[1]) = <<>> THEN TrimmedTokens(Tail(ts))
    ELSE <<Trim(ts[1])>> \o TrimmedTokens(Tail(ts))

\* tokenize has returned the tokens of the source
HasTokens == pos > Len(source) /\ (pc \in {"parse", "eval"} \/ (pc = "fault" /\ fault_at = "parse"))

\* C19: for every trimmed token the classification of the code (keyword table
\* first, then the literal forms) is the classification in the priority of
\* the specification (literal forms first, then keyword): no keyword matches
\* a literal form, a token matches at most one form and is classified as
\* that form, and a token that matches none makes the compilation fail.
C19_ClassificationOrdersAgree ==
    /\ \A c \in Commands : Forms(Keyword[c]) = {"Command"}
    /\ HasTokens =>
          LET ts == TrimmedTokens(tokens) IN
          /\ \A i \in 1..Len(ts) :
                /\ NodeParse(ts[i]) = SpecOrderParse(ts[i])
                /\ Cardinality(Forms(ts[i])) <= 1
                /\ IF NodeParse(ts[i]).some
                   THEN Forms(ts[i]) = {FormOf(NodeParse(ts[i]).val)}
                   ELSE Forms(ts[i]) = {}
          /\ pc = "eval" => nodes = [i \in 1..Len(ts) |-> SpecOrderParse(ts[i]).val]
          /\ (pc # "parse" /\ \E i \in 1..Len(ts) : Forms(ts[i]) = {}) =>
                (pc = "fault" /\ html = None)
          /\ pc = "fault" => \E i \in 1..Len(ts) : Forms(ts[i]) = {}

\* C19: the source pop1, a keyword followed by a digit, matches no form and
\* has made the compilation fail at the classification
C19_Witness ==
    /\ pc = "fault"
    /\ fault_at = "parse"
    /\ tokens = <<Keyword.Pop \o <<"1">>>>

\* ------------------------------------------------------------------ numerals
\* the digits of t after its optional sign
Unsigned(t) == IF t # <<>> /\ t[1] \in {"+", "-"} THEN Tail(t) ELSE t
Negative(t) == t # <<>> /\ t[1] = "-"

\* t is a decimal numeral, optionally signed
IsNumeral(t) == Unsigned(t) # <<>> /\ \A i \in 1..Len(Unsigned(t)) : IsDigit(Unsigned(t)[i])

RECURSIVE StripZeros(_)
StripZeros(ds) == IF Len(ds) > 1 /\ ds[1] = "0" THEN StripZeros(Tail(ds)) ELSE ds

\* a <= b for digit strings of the same length
RECURSIVE DigitsLeq(_, _)
DigitsLeq(a, b) ==
    IF a = <<>> THEN TRUE
    ELSE IF DigitVal(a[1]) < DigitVal(b[1]) THEN TRUE
    ELSE IF DigitVal(a[1]) > DigitVal(b[1]) THEN FALSE
    ELSE DigitsLeq(Tail(a), Tail(b))

\* the magnitudes of the ends of the 32-bit signed range, in digits
MaxMagnitude == <<"2", "1", "4", "7", "4", "8", "3", "6", "4", "7">>
MinMagnitude == <<"2", "1", "4", "7", "4", "8", "3", "6", "4", "8">>

\* the value of the numeral t lies in [-2147483648, 2147483647], decided on
\* its digits
InRange(t) ==
    LET m == StripZeros(Unsigned(t))
        limit == IF Negative(t) THEN MinMagnitude ELSE MaxMagnitude
    IN  Len(m) < Len(limit) \/ (Len(m) = Len(limit) /\ DigitsLeq(m, limit))

\* the value of a numeral in range: its digits read from the left, counted
\* downwards after a minus sign
RECURSIVE DigitsValue(_, _, _)
DigitsValue(ds, acc, neg) ==
    IF ds = <<>> THEN acc
    ELSE DigitsValue(Tail(ds), IF neg THEN acc * 10 - DigitVal(ds[1])
                                      ELSE acc * 10 + DigitVal(ds[1]), neg)
NumeralValue(t) == DigitsValue(StripZeros(Unsigned(t)), 0, Negative(t))

\* C20: a source that is one decimal numeral, optionally signed, is classified
\* as Integer exactly when its value lies in [-2147483648, 2147483647], and
\* then as the Integer of that value; outside the range it is no Integer and
\* no other literal or command, and the compilation fails at it.
C20_IntegerExactlyInRange ==
    (HasTokens /\ IsNumeral(source)) =>
        /\ ValueParse(source).some <=> InRange(source)
        /\ InRange(source) =>
              /\ NodeParse(source) = Some(Literal(IntegerValue(NumeralValue(source))))
              /\ pc # "fault"
              /\ pc = "eval" => nodes = <<Literal(IntegerValue(NumeralValue(source)))>>
        /\ ~InRange(source) =>
              /\ ~NodeParse(source).some
              /\ pc # "eval"
              /\ pc = "fault" => html = None

\* C20: 2147483648, one more than the largest Integer, has made the
\* compilation fail at the classification
C20_Witness ==
    /\ pc = "fault"
    /\ fault_at = "parse"
    /\ source = <<"2", "1", "4", "7", "4", "8", "3", "6", "4", "8">>

====
